---- MODULE Spec2Model ----
(***************************************************************************)
(* Model of src/core/middlewares/util/util.go: the manifest URL matchers,  *)
(* the manifest-info parsers, the mutex-key derivation and the memoized    *)
(* backing-store accessors of BlobInfo and ManifestInfo.                   *)
(*                                                                         *)
(* Strings are sequences of one-character strings, so that the regular     *)
(* expression, the digest syntax and the colon-joined keys are computed    *)
(* character by character.                                                 *)
(***************************************************************************)
EXTENDS Integers, Sequences, FiniteSets, TLC

VARIABLES
    req,      \* the HTTP request handed to a matcher or a parser
    out,      \* what the last matcher or key derivation returned
    infos,    \* two ManifestInfo instances whose mutex keys are derived
    suffix,   \* the suffix segments passed to MutexKey
    parsed,   \* what the two manifest-info parsers returned for req
    store,    \* the backing store behind the dao queries
    fields,   \* the memo fields of one BlobInfo and one ManifestInfo instance
    once,     \* the sync.Once guards of those instances
    th,       \* the middleware stages calling the accessors, one goroutine each
    queries,  \* how many backing queries each guard's accessor has issued
    qres,     \* what the backing query of each guard produced
    last,     \* the last accessor call that returned, with what it returned
    calls     \* accessor calls made so far

memoVars == <<store, fields, once, th, queries, qres, last, calls>>

vars == <<req, out, infos, suffix, parsed, memoVars>>

\* the specifications of the matchers, the keys and the parsers leave the
\* accessor state alone
MemoUnused ==
    /\ store = << >>
    /\ fields = << >>
    /\ once = << >>
    /\ th = << >>
    /\ queries = << >>
    /\ qres = << >>
    /\ last = << >>
    /\ calls = 0

(***************************************************************************)
(* Characters and string helpers                                           *)
(***************************************************************************)
LowerAlnum ==
    {"a", "b", "c", "d", "e", "f", "g", "h", "i", "j", "k", "l", "m", "n", "o",
     "p", "q", "r", "s", "t", "u", "v", "w", "x", "y", "z",
     "0", "1", "2", "3", "4", "5", "6", "7", "8", "9"}

UpperAlpha ==
    {"A", "B", "C", "D", "E", "F", "G", "H", "I", "J", "K", "L", "M", "N", "O",
     "P", "Q", "R", "S", "T", "U", "V", "W", "X", "Y", "Z"}

\* \w of the regular expression
WordChar == LowerAlnum \cup UpperAlpha \cup {"_"}

\* [._-] of the regular expression
SepChar == {".", "_", "-"}

\* [\w.:-] of the regular expression
RefChar == WordChar \cup {".", ":", "-"}

HexChar == {"a", "b", "c", "d", "e", "f",
            "0", "1", "2", "3", "4", "5", "6", "7", "8", "9"}

EmptyStr == << >>

SetMax(S) == CHOOSE x \in S : \A y \in S : y <= x

SetMin(S) == CHOOSE x \in S : \A y \in S : x <= y

Repeat(c, n) == [i \in 1..n |-> c]

\* s[i..] starts with lit
HasPrefixAt(s, i, lit) ==
    /\ i + Len(lit) - 1 <= Len(s)
    /\ SubSeq(s, i, i + Len(lit) - 1) = lit

\* strings.Index(s, c) for a single character, 0 when absent (1-based)
IndexOf(s, c) ==
    IF \E i \in 1..Len(s) : s[i] = c
    THEN SetMin({i \in 1..Len(s) : s[i] = c})
    ELSE 0

\* strings.Join(parts, sep) for a one-character separator
RECURSIVE Join(_, _)
Join(parts, sep) ==
    IF Len(parts) = 0 THEN EmptyStr
    ELSE IF Len(parts) = 1 THEN parts[1]
    ELSE parts[1] \o <<sep>> \o Join(Tail(parts), sep)

\* strings.TrimSuffix(s, "/")
TrimSuffixSlash(s) ==
    IF Len(s) > 0 /\ s[Len(s)] = "/" THEN SubSeq(s, 1, Len(s) - 1) ELSE s

(***************************************************************************)
(* String literals                                                         *)
(***************************************************************************)
StrV2 == <<"/", "v", "2", "/">>
StrV1 == <<"/", "v", "1", "/">>
StrManifests == <<"m", "a", "n", "i", "f", "e", "s", "t", "s", "/">>
StrBlobs == <<"b", "l", "o", "b", "s", "/">>
StrLatest == <<"l", "a", "t", "e", "s", "t">>
StrTagV1 == <<"v", "1">>
StrSha256 == <<"s", "h", "a", "2", "5", "6">>
StrSha384 == <<"s", "h", "a", "3", "8", "4">>
StrSha512 == <<"s", "h", "a", "5", "1", "2">>
StrQuota == <<"q", "u", "o", "t", "a">>
StrManifest == <<"m", "a", "n", "i", "f", "e", "s", "t">>
StrCount == <<"c", "o", "u", "n", "t">>

\* two well-formed sha256 digests
DigestA == StrSha256 \o <<":">> \o Repeat("a", 64)
DigestB == StrSha256 \o <<":">> \o Repeat("b", 64)

(***************************************************************************)
(* digest.Parse of the go-digest library, as called by the matchers and    *)
(* the parsers: "<algorithm>:<hex>" with an available algorithm and the    *)
(* hex length of that algorithm.                                           *)
(***************************************************************************)
DigestHexLen(alg) ==
    CASE alg = StrSha256 -> 64
      [] alg = StrSha384 -> 96
      [] alg = StrSha512 -> 128
      [] OTHER -> 0

\* TRUE iff digest.Parse(s) returns a nil error
DigestParseOK(s) ==
    LET i == IndexOf(s, ":") IN
    /\ i > 1
    /\ i < Len(s)
    /\ LET alg == SubSeq(s, 1, i - 1)
           encoded == SubSeq(s, i + 1, Len(s))
       IN /\ DigestHexLen(alg) > 0
          /\ Len(encoded) = DigestHexLen(alg)
          /\ \A k \in 1..Len(encoded) : encoded[k] \in HexChar

(***************************************************************************)
(* manifestURLRe                                                           *)
(*   ^/v2/((?:[a-z0-9]+(?:[._-][a-z0-9]+)*/)+)manifests/([\w][\w.:-]{0,127}) *)
(***************************************************************************)
\* {0,127}: the characters a reference may have after its first
RefTailMax == 127

\* [a-z0-9]+(?:[._-][a-z0-9]+)*
IsNameComponent(s) ==
    /\ Len(s) > 0
    /\ s[1] \in LowerAlnum
    /\ s[Len(s)] \in LowerAlnum
    /\ \A i \in 1..Len(s) : s[i] \in LowerAlnum \cup SepChar
    /\ \A i \in 1..(Len(s) - 1) : ~(s[i] \in SepChar /\ s[i + 1] \in SepChar)

\* (?:[a-z0-9]+(?:[._-][a-z0-9]+)*/)+ matches the whole of s
IsRepoGroup(s) ==
    /\ Len(s) > 0
    /\ s[Len(s)] = "/"
    /\ LET slashes == {i \in 1..Len(s) : s[i] = "/"}
           prev(i) == IF \E j \in slashes : j < i
                      THEN SetMax({j \in slashes : j < i})
                      ELSE 0
       IN \A i \in slashes : IsNameComponent(SubSeq(s, prev(i) + 1, i - 1))

\* manifestURLRe.FindStringSubmatch(path): << >> when there is no match, else
\* <<whole match, group 1, group 2>>.  The expression is anchored at the start
\* only; the repetitions are greedy, so group 1 is the longest repository
\* prefix after which "manifests/" and a reference character follow, and
\* group 2 is the longest run of at most 1 + RefTailMax reference characters.
FindStringSubmatch(path) ==
    LET n == Len(path)
        ends == {p \in 5..n :
                    /\ path[p] = "/"
                    /\ HasPrefixAt(path, p + 1, StrManifests)
                    /\ p + Len(StrManifests) + 1 <= n
                    /\ path[p + Len(StrManifests) + 1] \in WordChar
                    /\ IsRepoGroup(SubSeq(path, 5, p))}
    IN IF ~HasPrefixAt(path, 1, StrV2) \/ ends = {}
       THEN << >>
       ELSE LET p == SetMax(ends)
                first == p + Len(StrManifests) + 1
                limit == IF first + RefTailMax < n THEN first + RefTailMax ELSE n
                stop == SetMax({e \in first..limit :
                                  \A i \in (first + 1)..e : path[i] \in RefChar})
            IN <<SubSeq(path, 1, stop), SubSeq(path, 5, p), SubSeq(path, first, stop)>>

NoMatch == [match |-> FALSE, repository |-> EmptyStr, reference |-> EmptyStr]

\* MatchManifestURL
MatchManifestURL(r) ==
    LET s == FindStringSubmatch(r.Path) IN
    IF Len(s) = 3
    THEN [match |-> TRUE, repository |-> TrimSuffixSlash(s[2]), reference |-> s[3]]
    ELSE NoMatch

\* MatchPullManifest
MatchPullManifest(r) ==
    IF r.Method # "GET" THEN NoMatch ELSE MatchManifestURL(r)

\* MatchPushManifest
MatchPushManifest(r) ==
    IF r.Method # "PUT" THEN NoMatch ELSE MatchManifestURL(r)

\* MatchDeleteManifest: named results; when the reference is not a digest only
\* match is reset, repository and reference keep what MatchManifestURL gave
MatchDeleteManifest(r) ==
    IF r.Method # "DELETE" THEN NoMatch
    ELSE LET m == MatchManifestURL(r) IN
         IF ~DigestParseOK(m.reference)
         THEN [m EXCEPT !.match = FALSE]
         ELSE m

(***************************************************************************)
(* utils.ParseRepository (src/common/utils, outside this file): the        *)
(* project name is what precedes the first "/" of the repository; a        *)
(* repository without "/" has an empty project name.                       *)
(***************************************************************************)
ParseRepository(repository) ==
    LET i == IndexOf(repository, "/") IN
    IF i = 0
    THEN [project |-> EmptyStr, rest |-> repository]
    ELSE [project |-> SubSeq(repository, 1, i - 1),
          rest |-> SubSeq(repository, i + 1, Len(repository))]

(***************************************************************************)
(* ManifestInfo.MutexKey                                                   *)
(***************************************************************************)
\* a slip that would key on the digest whenever there is one
MutexKeyDigestFirst(info, sfx) ==
    LET projectName == ParseRepository(info.Repository).project
        a == IF info.Digest # EmptyStr
             THEN <<StrQuota, projectName, StrManifest, info.Digest>>
             ELSE <<StrQuota, projectName, StrManifest, info.Tag>>
    IN Join(a \o sfx, ":")

MutexKey(info, sfx) ==
    LET projectName == ParseRepository(info.Repository).project
        a == IF info.Tag # EmptyStr
             THEN <<StrQuota, projectName, StrManifest, info.Tag>>
             ELSE <<StrQuota, projectName, StrManifest, info.Digest>>
    IN Join(a \o sfx, ":")

(***************************************************************************)
(* Instances and suffix lists the key derivation is applied to             *)
(***************************************************************************)
\* longest suffix list passed to MutexKey
MaxSuffix == 2

KeyRepositories ==
    {<<"p", "/", "r">>, <<"p", "/", "r", "/", "s">>, <<"q", "/", "r">>,
     <<"l", "i", "b">>}

KeyTags == {EmptyStr, StrTagV1, StrLatest}

KeyDigests == {EmptyStr, DigestA, DigestB}

SuffixSegments == {StrCount, <<"x">>}

SuffixLists == UNION {[1..n -> SuffixSegments] : n \in 0..MaxSuffix}

KeyInstances ==
    [ProjectID : {1}, Repository : KeyRepositories, Tag : KeyTags,
     Digest : KeyDigests]

NoOut == [op |-> "none"]

InitKey ==
    /\ infos \in [1..2 -> KeyInstances]
    /\ suffix \in SuffixLists
    /\ out = NoOut
    /\ req = << >>
    /\ parsed = << >>
    /\ MemoUnused

DoMutexKey ==
    /\ out.op = "none"
    /\ out' = [op |-> "MutexKey",
               keys |-> [i \in 1..2 |-> MutexKey(infos[i], suffix)]]
    /\ UNCHANGED <<req, infos, suffix, parsed, memoVars>>

NextKey ==
    \/ DoMutexKey

SpecKey == InitKey /\ [][NextKey]_vars

(***************************************************************************)
(* JSON documents.  A body is the text of a document; ParseJSON is the     *)
(* syntax pass of json.Unmarshal over the texts used here, the typed       *)
(* decodes below are its second pass into ocispec.Manifest and             *)
(* ocispec.Descriptor.                                                     *)
(***************************************************************************)
JStr(s) == [t |-> "string", s |-> s]
JNum(n) == [t |-> "number", n |-> n]
JArr(a) == [t |-> "array", a |-> a]
JObj(o) == [t |-> "object", o |-> o]
JSyntaxError == [t |-> "syntax error"]

Quote == "\""
TextKey(name) == <<Quote>> \o name \o <<Quote, ":">>
TextStr(s) == <<Quote>> \o s \o <<Quote>>
KeyDigest == <<"d", "i", "g", "e", "s", "t">>
KeyLayers == <<"l", "a", "y", "e", "r", "s">>
KeySize == <<"s", "i", "z", "e">>

\* {"layers":[{"size":3,"digest":"sha256:bbb..."}]}
\* a manifest as a client pushes it: it has no top-level digest
DocManifest ==
    [text |-> <<"{">> \o TextKey(KeyLayers) \o <<"[", "{">> \o TextKey(KeySize)
                \o <<"3", ",">> \o TextKey(KeyDigest) \o TextStr(DigestB)
                \o <<"}", "]", "}">>,
     json |-> JObj([layers |-> JArr(<<JObj([size |-> JNum(3),
                                             digest |-> JStr(DigestB)])>>)])]

\* {"digest":"sha256:aaa...","size":9,"layers":[{"size":3,"digest":"sha256:bbb..."}]}
DocWithDigestA ==
    [text |-> <<"{">> \o TextKey(KeyDigest) \o TextStr(DigestA) \o <<",">>
                \o TextKey(KeySize) \o <<"9", ",">>
                \o TextKey(KeyLayers) \o <<"[", "{">> \o TextKey(KeySize)
                \o <<"3", ",">> \o TextKey(KeyDigest) \o TextStr(DigestB)
                \o <<"}", "]", "}">>,
     json |-> JObj([digest |-> JStr(DigestA), size |-> JNum(9),
                    layers |-> JArr(<<JObj([size |-> JNum(3),
                                             digest |-> JStr(DigestB)])>>)])]

\* {"digest":"sha256:bbb...","layers":[]}
DocWithDigestB ==
    [text |-> <<"{">> \o TextKey(KeyDigest) \o TextStr(DigestB) \o <<",">>
                \o TextKey(KeyLayers) \o <<"[", "]", "}">>,
     json |-> JObj([digest |-> JStr(DigestB), layers |-> JArr(<< >>)])]

\* {"layers":"x"}: the decode into ocispec.Manifest fails
DocLayersNotArray ==
    [text |-> <<"{">> \o TextKey(KeyLayers) \o TextStr(<<"x">>) \o <<"}">>,
     json |-> JObj([layers |-> JStr(<<"x">>)])]

\* {"layers":[],"digest":5}: only the decode into ocispec.Descriptor fails
DocDigestNotString ==
    [text |-> <<"{">> \o TextKey(KeyLayers) \o <<"[", "]", ",">>
                \o TextKey(KeyDigest) \o <<"5", "}">>,
     json |-> JObj([layers |-> JArr(<< >>), digest |-> JNum(5)])]

\* {"layers":  a truncated text
DocMalformed ==
    [text |-> <<"{">> \o TextKey(KeyLayers), json |-> JSyntaxError]

Documents ==
    {DocManifest, DocWithDigestA, DocWithDigestB, DocLayersNotArray,
     DocDigestNotString, DocMalformed}

ParseJSON(bytes) ==
    IF \E d \in Documents : d.text = bytes
    THEN (CHOOSE d \in Documents : d.text = bytes).json
    ELSE JSyntaxError

\* a field of a JSON object may be absent; when present it must have the
\* JSON type of the Go field it is decoded into
FieldIs(o, k, type) == k \in DOMAIN o => o[k].t = type

\* the fields of ocispec.Descriptor this file copies that carry identity
DescriptorFieldsOK(o) ==
    /\ FieldIs(o, "mediaType", "string")
    /\ FieldIs(o, "digest", "string")
    /\ FieldIs(o, "size", "number")
    /\ FieldIs(o, "urls", "array")
    /\ FieldIs(o, "annotations", "object")
    /\ FieldIs(o, "platform", "object")

DecodeDescriptor(o) ==
    [MediaType |-> IF "mediaType" \in DOMAIN o THEN o.mediaType.s ELSE EmptyStr,
     Size |-> IF "size" \in DOMAIN o THEN o.size.n ELSE 0,
     Digest |-> IF "digest" \in DOMAIN o THEN o.digest.s ELSE EmptyStr]

\* json.Unmarshal(body, &manifest) with manifest an ocispec.Manifest
UnmarshalManifest(bytes) ==
    LET v == ParseJSON(bytes) IN
    IF v.t # "object" THEN [err |-> TRUE, Layers |-> << >>]
    ELSE IF ~(/\ FieldIs(v.o, "schemaVersion", "number")
              /\ FieldIs(v.o, "layers", "array")
              /\ FieldIs(v.o, "annotations", "object")
              /\ FieldIs(v.o, "config", "object")
              /\ "config" \in DOMAIN v.o => DescriptorFieldsOK(v.o.config.o)
              /\ "layers" \in DOMAIN v.o =>
                    \A i \in 1..Len(v.o.layers.a) :
                        /\ v.o.layers.a[i].t = "object"
                        /\ DescriptorFieldsOK(v.o.layers.a[i].o))
    THEN [err |-> TRUE, Layers |-> << >>]
    ELSE [err |-> FALSE,
          Layers |-> IF "layers" \in DOMAIN v.o
                     THEN [i \in 1..Len(v.o.layers.a) |->
                              DecodeDescriptor(v.o.layers.a[i].o)]
                     ELSE << >>]

\* json.Unmarshal(body, &desc) with desc an ocispec.Descriptor
UnmarshalDescriptor(bytes) ==
    LET v == ParseJSON(bytes) IN
    IF v.t # "object" \/ ~DescriptorFieldsOK(v.o)
    THEN [err |-> TRUE, desc |-> DecodeDescriptor([none |-> 0])]
    ELSE [err |-> FALSE, desc |-> DecodeDescriptor(v.o)]

(***************************************************************************)
(* req.Body: an io.ReadCloser.  data is what the stream still delivers     *)
(* from position pos on; fails says that the stream ends in a read error   *)
(* (a broken connection) instead of io.EOF.                                *)
(***************************************************************************)
NilBody == [nil |-> TRUE, data |-> << >>, pos |-> 0, fails |-> FALSE]

\* ioutil.ReadAll: the bytes that were left, the error, the stream afterwards
ReadAll(b) ==
    [bytes |-> SubSeq(b.data, b.pos + 1, Len(b.data)),
     err |-> b.fails,
     after |-> [b EXCEPT !.pos = Len(b.data)]]

\* a slip that would hand on the buffer the decode has drained
NewBodyDrained(bytes) ==
    [nil |-> FALSE, data |-> bytes, pos |-> Len(bytes), fails |-> FALSE]

\* ioutil.NopCloser(bytes.NewBuffer(body))
NewBody(bytes) ==
    [nil |-> FALSE, data |-> bytes, pos |-> 0, fails |-> FALSE]

(***************************************************************************)
(* dao.GetProjectByName: the projects of the backing store; the query      *)
(* itself may fail                                                         *)
(***************************************************************************)
ProjectsInStore == {[Name |-> <<"p">>, ProjectID |-> 1]}

GetProjectByName(name, dbFails) ==
    IF dbFails THEN [err |-> TRUE, found |-> FALSE, ProjectID |-> 0]
    ELSE IF \E pr \in ProjectsInStore : pr.Name = name
    THEN [err |-> FALSE, found |-> TRUE,
          ProjectID |-> (CHOOSE pr \in ProjectsInStore : pr.Name = name).ProjectID]
    ELSE [err |-> FALSE, found |-> FALSE, ProjectID |-> 0]

(***************************************************************************)
(* ParseManifestInfoFromReq and ParseManifestInfoFromPath                  *)
(***************************************************************************)
ManifestMediaTypes ==
    {"application/vnd.docker.distribution.manifest.v1+json",
     "application/vnd.docker.distribution.manifest.v1+prettyjws",
     "application/vnd.docker.distribution.manifest.v2+json",
     "application/vnd.oci.image.manifest.v1+json"}

ZeroDescriptor == [MediaType |-> EmptyStr, Size |-> 0, Digest |-> EmptyStr]

NilInfo ==
    [ProjectID |-> 0, Repository |-> EmptyStr, Tag |-> EmptyStr,
     Digest |-> EmptyStr, References |-> << >>, Descriptor |-> ZeroDescriptor]

\* return nil, err: the request keeps the body it has at that point
ParseFailed(why, body) == [err |-> why, info |-> NilInfo, body |-> body]

\* the result and the req.Body the call leaves behind
ParseManifestInfoFromReq(r, dbFails) ==
    LET m == MatchManifestURL(r)
        tag == IF DigestParseOK(m.reference) THEN EmptyStr ELSE m.reference
    IN
    IF ~m.match THEN ParseFailed("not match url", r.Body)
    ELSE IF r.ContentType \notin ManifestMediaTypes
    THEN ParseFailed("unsupported content type", r.Body)
    ELSE IF r.Body.nil THEN ParseFailed("body missing", r.Body)
    ELSE
    LET read1 == ReadAll(r.Body) IN
    IF read1.err THEN ParseFailed("read body", read1.after)
    ELSE
    LET body1 == NewBody(read1.bytes)
        manifest == UnmarshalManifest(read1.bytes)
    IN
    IF manifest.err THEN ParseFailed("unmarshal manifest", body1)
    ELSE
    LET read2 == ReadAll(body1) IN
    IF read2.err THEN ParseFailed("read body 2", read2.after)
    ELSE
    LET body2 == NewBody(read2.bytes)
        d == UnmarshalDescriptor(read2.bytes)
    IN
    IF d.err THEN ParseFailed("unmarshal descriptor", body2)
    ELSE
    LET projectName == ParseRepository(m.repository).project
        project == GetProjectByName(projectName, dbFails)
    IN
    IF project.err THEN ParseFailed("failed to get project", body2)
    ELSE IF ~project.found THEN ParseFailed("project not found", body2)
    ELSE [err |-> "nil",
          info |-> [ProjectID |-> project.ProjectID,
                    Repository |-> m.repository,
                    Tag |-> tag,
                    Digest |-> d.desc.Digest,
                    References |-> manifest.Layers,
                    Descriptor |-> d.desc],
          body |-> body2]

ParseManifestInfoFromPath(r, dbFails) ==
    LET m == MatchManifestURL(r) IN
    IF ~m.match THEN ParseFailed("not match url", r.Body)
    ELSE
    LET projectName == ParseRepository(m.repository).project
        project == GetProjectByName(projectName, dbFails)
    IN
    IF project.err THEN ParseFailed("failed to get project", r.Body)
    ELSE IF ~project.found THEN ParseFailed("project not found", r.Body)
    ELSE [err |-> "nil",
          info |-> [NilInfo EXCEPT
                      !.ProjectID = project.ProjectID,
                      !.Repository = m.repository,
                      !.Tag = IF DigestParseOK(m.reference)
                              THEN EmptyStr ELSE m.reference,
                      !.Digest = IF DigestParseOK(m.reference)
                                 THEN m.reference ELSE EmptyStr],
          body |-> r.Body]

(***************************************************************************)
(* Requests the parsers are applied to                                     *)
(***************************************************************************)
ParsePaths ==
    {StrV2 \o <<"p", "/", "r", "/">> \o StrManifests \o StrTagV1,
     StrV2 \o <<"p", "/", "r", "/">> \o StrManifests \o DigestA,
     StrV2 \o <<"q", "/", "r", "/">> \o StrManifests \o StrTagV1,
     StrV2 \o <<"p", "/", "r", "/">> \o StrBlobs \o DigestA}

ContentTypes == ManifestMediaTypes \cup {"application/json", ""}

\* a body that delivers a whole document and ends with io.EOF, a body whose
\* stream breaks after part of a document, and no body
RequestBody(data, fails) ==
    [nil |-> FALSE, data |-> data, pos |-> 0, fails |-> fails]

ParseBodies ==
    {RequestBody(d.text, FALSE) : d \in Documents}
      \cup {RequestBody(<< >>, FALSE)}
      \cup {RequestBody(SubSeq(DocManifest.text, 1, n), TRUE) : n \in {0, 5}}
      \cup {NilBody}

NotParsed == [op |-> "none"]

InitParse ==
    /\ req \in [Method : {"PUT"}, Path : ParsePaths,
                ContentType : ContentTypes, Body : ParseBodies]
    /\ parsed = [fromReq |-> NotParsed, fromPath |-> NotParsed]
    /\ out = NoOut
    /\ infos = << >>
    /\ suffix = << >>
    /\ MemoUnused

DoParseManifestInfoFromReq ==
    /\ parsed.fromReq.op = "none"
    /\ \E dbFails \in BOOLEAN :
          LET res == ParseManifestInfoFromReq(req, dbFails) IN
          /\ parsed' = [parsed EXCEPT
                           !.fromReq = [op |-> "ParseManifestInfoFromReq",
                                        err |-> res.err, info |-> res.info,
                                        before |-> req.Body]]
          /\ req' = [req EXCEPT !.Body = res.body]
    /\ UNCHANGED <<out, infos, suffix, memoVars>>

DoParseManifestInfoFromPath ==
    /\ parsed.fromPath.op = "none"
    /\ \E dbFails \in BOOLEAN :
          LET res == ParseManifestInfoFromPath(req, dbFails) IN
          /\ parsed' = [parsed EXCEPT
                           !.fromPath = [op |-> "ParseManifestInfoFromPath",
                                         err |-> res.err, info |-> res.info,
                                         before |-> req.Body]]
          /\ req' = [req EXCEPT !.Body = res.body]
    /\ UNCHANGED <<out, infos, suffix, memoVars>>

NextParse ==
    \/ DoParseManifestInfoFromReq
    \/ DoParseManifestInfoFromPath

SpecParse == InitParse /\ [][NextParse]_vars

(***************************************************************************)
(* Requests the matchers are applied to                                    *)
(***************************************************************************)
Methods == {"GET", "PUT", "DELETE", "POST"}

PathPrefixes == {StrV2, StrV1}

RepoParts ==
    {<<"a", "/", "b", "/">>, <<"p", "/", "r", "/">>, <<"a", "/">>, <<"A", "/">>,
     <<"a", ".", ".", "b", "/">>, <<"a", ".", "b", "/">>, EmptyStr,
     <<"a", "/", "m", "a", "n", "i", "f", "e", "s", "t", "s", "/", "b", "/">>}

PathMiddles == {StrManifests, StrBlobs}

RefParts ==
    {StrLatest, StrTagV1, DigestA,
     <<"s", "h", "a", "2", "5", "6", ":", "a", "b", "c">>,
     <<".", "x">>, EmptyStr, <<"l", "a", "t", "@", "e", "s", "t">>,
     Repeat("x", RefTailMax + 1), Repeat("x", RefTailMax + 2)}

PathTrailers == {EmptyStr, <<"/", "e", "x", "t", "r", "a">>}

MatchPaths ==
    {pre \o repo \o mid \o ref \o trail :
        pre \in PathPrefixes, repo \in RepoParts, mid \in PathMiddles,
        ref \in RefParts, trail \in PathTrailers}

InitMatch ==
    /\ req \in [Method : Methods, Path : MatchPaths]
    /\ out = NoOut
    /\ infos = << >>
    /\ suffix = << >>
    /\ parsed = << >>
    /\ MemoUnused

DoMatchPullManifest ==
    /\ out.op = "none"
    /\ out' = [op |-> "MatchPullManifest", res |-> MatchPullManifest(req)]
    /\ UNCHANGED <<req, infos, suffix, parsed, memoVars>>

DoMatchPushManifest ==
    /\ out.op = "none"
    /\ out' = [op |-> "MatchPushManifest", res |-> MatchPushManifest(req)]
    /\ UNCHANGED <<req, infos, suffix, parsed, memoVars>>

DoMatchDeleteManifest ==
    /\ out.op = "none"
    /\ out' = [op |-> "MatchDeleteManifest", res |-> MatchDeleteManifest(req)]
    /\ UNCHANGED <<req, infos, suffix, parsed, memoVars>>

NextMatch ==
    \/ DoMatchPullManifest
    \/ DoMatchPushManifest
    \/ DoMatchDeleteManifest

SpecMatch == InitMatch /\ [][NextMatch]_vars

(***************************************************************************)
(* The memoized accessors of BlobInfo and ManifestInfo, SyncBlobs and      *)
(* GetBlobsNotInProject, called by the stages of one request on the same   *)
(* instances.                                                              *)
(***************************************************************************)
\* the middleware stages that share the instances
Stages == {"s1", "s2"}

\* accessor calls made in one run
MaxCalls == 2

Guards == {"blobExistOnce", "manifestExistOnce", "artifactOnce"}

MemoOps == {"BlobExists", "ManifestExists", "IsNewTag", "Artifact"}

DaoOps == {"GetBlobsNotInProject", "SyncBlobs"}

\* the sync.Once an accessor goes through
GuardOf(op) ==
    CASE op = "BlobExists" -> "blobExistOnce"
      [] op = "ManifestExists" -> "manifestExistOnce"
      [] OTHER -> "artifactOnce"

\* the fields a guard's function assigns
ValField(g) ==
    CASE g = "blobExistOnce" -> "blobExist"
      [] g = "manifestExistOnce" -> "manifestExist"
      [] OTHER -> "artifact"

ErrField(g) ==
    CASE g = "blobExistOnce" -> "blobExistErr"
      [] g = "manifestExistOnce" -> "manifestExistErr"
      [] OTHER -> "artifactErr"

\* *models.Artifact: nil, or the record of the store
NilArtifact == [nil |-> TRUE, ID |-> 0, CreationTime |-> 0]

StoredArtifact == [nil |-> FALSE, ID |-> 7, CreationTime |-> 1]

\* the digests of info.References
ReferenceDigests == {"layer1", "layer2"}

\* dao.HasBlobInProject
HasBlobInProject(st, fails) ==
    IF fails THEN [val |-> FALSE, err |-> "db error"]
    ELSE [val |-> st.blobInProject, err |-> "nil"]

\* dao.GetTotalOfArtifacts
GetTotalOfArtifacts(st, fails) ==
    IF fails THEN [total |-> 0, err |-> "db error"]
    ELSE [total |-> st.total, err |-> "nil"]

\* dao.GetArtifact: no row is (nil, nil)
GetArtifact(st, fails) ==
    IF fails THEN [val |-> NilArtifact, err |-> "db error"]
    ELSE [val |-> st.artifact, err |-> "nil"]

\* dao.GetBlobsNotInProject
DaoGetBlobsNotInProject(st, fails) ==
    IF fails THEN [val |-> {}, err |-> "db error"]
    ELSE [val |-> IF st.blobInProject THEN {} ELSE ReferenceDigests,
          err |-> "nil"]

\* what dao.SyncBlobs may return
SyncBlobsOutcomes == {"nil", "ErrDupRows", "db error", "timeout"}

\* manifestExist = total > 0
ManifestExistOf(total) == total > 0

\* the function handed to a guard's Do: one backing query
QueryResult(g, st, fails) ==
    CASE g = "blobExistOnce" -> HasBlobInProject(st, fails)
      [] g = "manifestExistOnce" ->
            LET r == GetTotalOfArtifacts(st, fails)
            IN [val |-> ManifestExistOf(r.total), err |-> r.err]
      [] OTHER -> GetArtifact(st, fails)

\* IsNewTag: artifact == nil
\* a slip that would invert the test
IsNewTagInverted(artifact) == ~artifact.nil

IsNewTag(artifact) == artifact.nil

\* Artifact: the identity and creation time of the found record, or none
ArtifactOf(artifact) ==
    IF ~artifact.nil
    THEN [ID |-> artifact.ID, CreationTime |-> artifact.CreationTime,
          PushTimeSet |-> TRUE, Kind |-> "Docker-Image"]
    ELSE [ID |-> 0, CreationTime |-> 0, PushTimeSet |-> FALSE,
          Kind |-> "Docker-Image"]

\* SyncBlobs: what it returns for what dao.SyncBlobs returned
\* a slip that would leave the duplicate-row check out
SyncBlobsReturnsAll(daoErr) == daoErr

SyncBlobsReturns(daoErr) == IF daoErr = "ErrDupRows" THEN "nil" ELSE daoErr

ZeroFields ==
    [blobExist |-> FALSE, blobExistErr |-> "nil",
     manifestExist |-> FALSE, manifestExistErr |-> "nil",
     artifact |-> NilArtifact, artifactErr |-> "nil"]

NoResult == [blobs |-> {}, err |-> "nil", upserts |-> 0, outcome |-> "nil"]

NoQueryYet(g) ==
    [set |-> FALSE, val |-> ZeroFields[ValField(g)], err |-> "nil",
     existed |-> FALSE]

NoReturn ==
    [op |-> "none", stage |-> "none", existedAtCall |-> FALSE,
     existsNow |-> FALSE, fetched |-> [val |-> NilArtifact, err |-> "nil"],
     upserts |-> 0, outcome |-> "nil", val |-> FALSE,
     artifact |-> ArtifactOf(NilArtifact), blobs |-> {}, err |-> "nil"]

InitMemo ==
    /\ store = [artifact |-> NilArtifact, blobInProject |-> FALSE, total |-> 0]
    /\ fields = ZeroFields
    /\ once = [g \in Guards |-> [done |-> FALSE, m |-> "free"]]
    /\ th = [t \in Stages |->
               [pc |-> "idle", op |-> "none", res |-> NoResult,
                existedAtCall |-> FALSE]]
    /\ queries = [g \in Guards |-> 0]
    /\ qres = [g \in Guards |-> NoQueryYet(g)]
    /\ last = NoReturn
    /\ calls = 0
    /\ req = << >>
    /\ out = NoOut
    /\ infos = << >>
    /\ suffix = << >>
    /\ parsed = << >>

pureVars == <<req, out, infos, suffix, parsed>>

\* a stage calls a guarded accessor and enters Once.Do: the fast path is the
\* atomic load of done
CallAccessor(t) ==
    /\ th[t].pc = "idle"
    /\ calls < MaxCalls
    /\ \E op \in MemoOps :
          th' = [th EXCEPT ![t] =
                    [pc |-> IF once[GuardOf(op)].done THEN "ret" ELSE "lock",
                     op |-> op, res |-> NoResult,
                     existedAtCall |-> ~store.artifact.nil]]
    /\ calls' = calls + 1
    /\ UNCHANGED <<store, fields, once, queries, qres, last, pureVars>>

\* a stage calls SyncBlobs or GetBlobsNotInProject
CallDao(t) ==
    /\ th[t].pc = "idle"
    /\ calls < MaxCalls
    /\ \E op \in DaoOps :
          th' = [th EXCEPT ![t] =
                    [pc |-> "dao", op |-> op, res |-> NoResult,
                     existedAtCall |-> ~store.artifact.nil]]
    /\ calls' = calls + 1
    /\ UNCHANGED <<store, fields, once, queries, qres, last, pureVars>>

\* a guard that would run its function whenever it gets the mutex
OnceLockNoRecheck(t) ==
    LET g == GuardOf(th[t].op) IN
    /\ th[t].pc = "lock"
    /\ once[g].m = "free"
    /\ once' = [once EXCEPT ![g].m = t]
    /\ queries' = [queries EXCEPT ![g] = @ + 1]
    /\ th' = [th EXCEPT ![t].pc = "inflight"]
    /\ UNCHANGED <<store, fields, qres, last, calls, pureVars>>

\* a guard that would not wait: the caller that finds the function running
\* returns at once (the compare-and-swap implementation sync.Once warns of)
OnceLockNoWait(t) ==
    LET g == GuardOf(th[t].op) IN
    /\ th[t].pc = "lock"
    /\ IF once[g].done \/ once[g].m # "free"
       THEN /\ th' = [th EXCEPT ![t].pc = "ret"]
            /\ UNCHANGED <<once, queries>>
       ELSE /\ once' = [once EXCEPT ![g].m = t]
            /\ queries' = [queries EXCEPT ![g] = @ + 1]
            /\ th' = [th EXCEPT ![t].pc = "inflight"]
    /\ UNCHANGED <<store, fields, qres, last, calls, pureVars>>

\* Once.Do, slow path: o.m.Lock() blocks while another caller holds the mutex;
\* with the mutex, done is read again: set, the mutex is released and Do
\* returns; clear, the function runs and sends its query to the backing store
OnceLock(t) ==
    LET g == GuardOf(th[t].op) IN
    /\ th[t].pc = "lock"
    /\ once[g].m = "free"
    /\ IF once[g].done
       THEN /\ th' = [th EXCEPT ![t].pc = "ret"]
            /\ UNCHANGED <<once, queries>>
       ELSE /\ once' = [once EXCEPT ![g].m = t]
            /\ queries' = [queries EXCEPT ![g] = @ + 1]
            /\ th' = [th EXCEPT ![t].pc = "inflight"]
    /\ UNCHANGED <<store, fields, qres, last, calls, pureVars>>

\* the query comes back and the function assigns the memo fields
QueryReturns(t, fails) ==
    LET g == GuardOf(th[t].op)
        r == QueryResult(g, store, fails)
    IN
    /\ th[t].pc = "inflight"
    /\ fields' = [fields EXCEPT ![ValField(g)] = r.val, ![ErrField(g)] = r.err]
    /\ qres' = [qres EXCEPT ![g] = [set |-> TRUE, val |-> r.val, err |-> r.err,
                                    existed |-> ~store.artifact.nil]]
    /\ th' = [th EXCEPT ![t].pc = "unlock"]
    /\ UNCHANGED <<store, once, queries, last, calls, pureVars>>

QuerySucceeds(t) == QueryReturns(t, FALSE)

QueryFails(t) == QueryReturns(t, TRUE)

\* Once.Do, deferred: done is stored, the mutex released
OnceUnlock(t) ==
    LET g == GuardOf(th[t].op) IN
    /\ th[t].pc = "unlock"
    /\ once' = [once EXCEPT ![g] = [done |-> TRUE, m |-> "free"]]
    /\ th' = [th EXCEPT ![t].pc = "ret"]
    /\ UNCHANGED <<store, fields, queries, qres, last, calls, pureVars>>

\* GetBlobsNotInProject and SyncBlobs: one dao call, no guard
DaoReturns(t, outcome) ==
    /\ th[t].pc = "dao"
    /\ th' = [th EXCEPT
                ![t].pc = "ret",
                ![t].res =
                    IF th[t].op = "SyncBlobs"
                    THEN [blobs |-> {}, err |-> SyncBlobsReturns(outcome),
                          upserts |-> th[t].res.upserts + 1, outcome |-> outcome]
                    ELSE LET r == DaoGetBlobsNotInProject(store, outcome # "nil")
                         IN [blobs |-> r.val, err |-> r.err, upserts |-> 0,
                             outcome |-> r.err]]
    /\ UNCHANGED <<store, fields, once, queries, qres, last, calls, pureVars>>

DaoSucceeds(t) ==
    \E outcome \in {"nil", "ErrDupRows"} :
        /\ (outcome = "ErrDupRows" => th[t].op = "SyncBlobs")
        /\ DaoReturns(t, outcome)

DaoFails(t) ==
    \E outcome \in SyncBlobsOutcomes \ {"nil", "ErrDupRows"} :
        /\ (outcome = "timeout" => th[t].op = "SyncBlobs")
        /\ DaoReturns(t, outcome)

\* the accessor returns to the stage what the memo fields hold
Return(t) ==
    LET op == th[t].op
        fetched == [val |-> fields.artifact, err |-> fields.artifactErr]
    IN
    /\ th[t].pc = "ret"
    /\ last' =
         [op |-> op, stage |-> t, existedAtCall |-> th[t].existedAtCall,
          existsNow |-> ~store.artifact.nil,
          fetched |-> fetched,
          upserts |-> th[t].res.upserts,
          outcome |-> th[t].res.outcome,
          val |-> CASE op = "BlobExists" -> fields.blobExist
                    [] op = "ManifestExists" -> fields.manifestExist
                    [] op = "IsNewTag" -> IsNewTag(fetched.val)
                    [] OTHER -> FALSE,
          artifact |-> IF op = "Artifact" THEN ArtifactOf(fetched.val)
                       ELSE ArtifactOf(NilArtifact),
          blobs |-> th[t].res.blobs,
          err |-> CASE op = "BlobExists" -> fields.blobExistErr
                    [] op = "ManifestExists" -> fields.manifestExistErr
                    [] op \in {"IsNewTag", "Artifact"} -> "nil"
                    [] OTHER -> th[t].res.err]
    /\ th' = [th EXCEPT ![t].pc = "idle"]
    /\ UNCHANGED <<store, fields, once, queries, qres, calls, pureVars>>

\* another request completes its push of the same manifest: the artifact
\* record of (Repository, Tag) is created, its blobs are in the project
CreateArtifact ==
    /\ store.artifact.nil
    /\ store' = [artifact |-> StoredArtifact, blobInProject |-> TRUE,
                 total |-> store.total + 1]
    /\ UNCHANGED <<fields, once, th, queries, qres, last, calls, pureVars>>

\* the guarded accessors alone, the backing store answering every query
NextAccessorsReliable ==
    \/ \E t \in Stages : CallAccessor(t)
    \/ \E t \in Stages : OnceLock(t)
    \/ \E t \in Stages : QuerySucceeds(t)
    \/ \E t \in Stages : OnceUnlock(t)
    \/ \E t \in Stages : Return(t)
    \/ CreateArtifact

\* the guarded accessors alone
NextAccessors ==
    \/ NextAccessorsReliable
    \/ \E t \in Stages : QueryFails(t)

Next ==
    \/ NextAccessors
    \/ \E t \in Stages : CallDao(t)
    \/ \E t \in Stages : DaoSucceeds(t)
    \/ \E t \in Stages : DaoFails(t)

\* what a stage does once it has called: the goroutine is scheduled, the
\* backing store answers
Proceed(t) ==
    \/ OnceLock(t)
    \/ QuerySucceeds(t)
    \/ QueryFails(t)
    \/ OnceUnlock(t)
    \/ DaoSucceeds(t)
    \/ DaoFails(t)
    \/ Return(t)

Spec == InitMemo /\ [][Next]_vars

SpecReliable == InitMemo /\ [][NextAccessorsReliable]_vars

FairSpec ==
    InitMemo /\ [][NextAccessors]_vars /\ \A t \in Stages : WF_vars(Proceed(t))

(***************************************************************************)
(* The manifest-endpoint shape /v2/<repo-path>/manifests/<reference>: the  *)
(* whole path, with a reference of 1 to 1 + RefTailMax characters.         *)
(***************************************************************************)
IsReference(s) ==
    /\ Len(s) >= 1
    /\ Len(s) <= RefTailMax + 1
    /\ s[1] \in WordChar
    /\ \A i \in 2..Len(s) : s[i] \in RefChar

ShapeSplits(path) ==
    {p \in 5..Len(path) :
        /\ HasPrefixAt(path, 1, StrV2)
        /\ IsRepoGroup(SubSeq(path, 5, p))
        /\ HasPrefixAt(path, p + 1, StrManifests)
        /\ IsReference(SubSeq(path, p + Len(StrManifests) + 1, Len(path)))}

HasManifestShape(path) == ShapeSplits(path) # {}

ShapeRepository(path) ==
    LET p == CHOOSE q \in ShapeSplits(path) : TRUE IN SubSeq(path, 5, p - 1)

ShapeReference(path) ==
    LET p == CHOOSE q \in ShapeSplits(path) : TRUE
    IN SubSeq(path, p + Len(StrManifests) + 1, Len(path))

MatcherOps == {"MatchPullManifest", "MatchPushManifest", "MatchDeleteManifest"}

\* C4: a matcher that does not match returns false with an empty repository
\* and an empty reference.
C4_NoMatchIsEmpty ==
    (out.op \in MatcherOps /\ ~out.res.match)
        => (out.res.repository = EmptyStr /\ out.res.reference = EmptyStr)

\* C5: pull matches iff GET and the path has the manifest-endpoint shape, push
\* iff PUT and the shape, delete iff DELETE, the shape and a digest reference;
\* at most one matcher matches a request; a match returns the path's
\* repository (no trailing slash) and its reference segment.
C5_MatchIffShape ==
    LET shaped == HasManifestShape(req.Path) IN
    /\ out.op = "MatchPullManifest"
          => (out.res.match <=> (req.Method = "GET" /\ shaped))
    /\ out.op = "MatchPushManifest"
          => (out.res.match <=> (req.Method = "PUT" /\ shaped))
    /\ out.op = "MatchDeleteManifest"
          => (out.res.match <=> (/\ req.Method = "DELETE"
                                 /\ shaped
                                 /\ DigestParseOK(ShapeReference(req.Path))))
    /\ (out.op \in MatcherOps /\ out.res.match)
          => /\ shaped
             /\ out.res.repository = ShapeRepository(req.Path)
             /\ out.res.reference = ShapeReference(req.Path)
    /\ Cardinality({o \in MatcherOps :
                      CASE o = "MatchPullManifest" -> MatchPullManifest(req).match
                        [] o = "MatchPushManifest" -> MatchPushManifest(req).match
                        [] OTHER -> MatchDeleteManifest(req).match}) <= 1

\* the key the claim describes, built segment by segment
RECURSIVE ColonAppend(_, _)
ColonAppend(key, sfx) ==
    IF sfx = << >> THEN key
    ELSE ColonAppend(key \o <<":">> \o Head(sfx), Tail(sfx))

ProjectPrefix(repository) ==
    IF \E i \in 1..Len(repository) : repository[i] = "/"
    THEN SubSeq(repository, 1,
                (CHOOSE i \in 1..Len(repository) :
                    /\ repository[i] = "/"
                    /\ \A j \in 1..(i - 1) : repository[j] # "/") - 1)
    ELSE EmptyStr

DescribedKey(info, sfx) ==
    ColonAppend(StrQuota \o <<":">> \o ProjectPrefix(info.Repository) \o <<":">>
                   \o StrManifest \o <<":">>
                   \o (IF info.Tag # EmptyStr THEN info.Tag ELSE info.Digest),
                sfx)

\* C6: with a tag the key is quota:<project>:manifest:<Tag>[:suffix...] whatever
\* the digest; without a tag it is quota:<project>:manifest:<Digest>[:suffix...].
C6_KeyByTagPresence ==
    out.op = "MutexKey" =>
        /\ \A i \in 1..2 : out.keys[i] = DescribedKey(infos[i], suffix)
        /\ (/\ infos[1].Tag # EmptyStr
            /\ infos[1].Tag = infos[2].Tag
            /\ infos[1].Repository = infos[2].Repository)
              => out.keys[1] = out.keys[2]

C6_Witness ==
    /\ out.op = "MutexKey"
    /\ infos[1].Tag = StrTagV1
    /\ infos[2].Tag = StrTagV1
    /\ infos[1].Repository = infos[2].Repository
    /\ infos[1].Digest = DigestA
    /\ infos[2].Digest = DigestB
    /\ Len(suffix) = 2

\* C2: the two parsers, applied to the same request, give instances with the
\* same mutex key for every suffix list, for a tag and for a digest reference.
C2_ParsersAgreeOnKey ==
    (/\ parsed.fromReq.op # "none"
     /\ parsed.fromPath.op # "none"
     /\ parsed.fromReq.err = "nil"
     /\ parsed.fromPath.err = "nil")
        => \A sfx \in SuffixLists :
              MutexKey(parsed.fromReq.info, sfx) = MutexKey(parsed.fromPath.info, sfx)

C1_OneQueryOneAnswer ==
    /\ \A g \in Guards : queries[g] <= 1
    /\ last.op \in MemoOps =>
          LET g == GuardOf(last.op) IN
          /\ queries[g] = 1
          /\ qres[g].set
          /\ last.op \in {"BlobExists", "ManifestExists"} =>
                (last.val = qres[g].val /\ last.err = qres[g].err)
          /\ last.op \in {"IsNewTag", "Artifact"} =>
                (last.fetched.val = qres[g].val /\ last.fetched.err = qres[g].err)

C1_Witness ==
    /\ last.op = "BlobExists"
    /\ qres["blobExistOnce"].err # "nil"
    /\ \E t \in Stages :
          /\ t # last.stage
          /\ th[t].op = "BlobExists"
          /\ th[t].pc = "ret"

\* C7: IsNewTag is true when invoked before the artifact record exists and
\* false when invoked after its creation, also on an instance asked both
\* before and after.  (A call during which the record is created may answer
\* either way.)
C7_TrueBeforeFalseAfter ==
    last.op = "IsNewTag" =>
        /\ last.existedAtCall => last.val = FALSE
        /\ ~last.existsNow => last.val = TRUE

\* C7 as amended: IsNewTag repeats the outcome of the instance's one memoized
\* lookup: true iff that lookup found no record (or failed), whatever has been
\* created since.
C7_AnswerOfTheOneLookup ==
    last.op = "IsNewTag" =>
        LET q == qres["artifactOnce"] IN
        /\ q.set
        /\ queries["artifactOnce"] = 1
        /\ last.val = (q.err # "nil" \/ ~q.existed)

C7_Witness ==
    /\ last.op = "IsNewTag"
    /\ last.existedAtCall
    /\ last.val = TRUE
    /\ qres["artifactOnce"].err = "nil"

\* C8: SyncBlobs returns nil when the upsert succeeds or reports duplicate
\* rows, any other error unchanged, after exactly one upsert call.
C8_SyncBlobsDupRowsIsSuccess ==
    last.op = "SyncBlobs" =>
        /\ last.upserts = 1
        /\ last.outcome \in {"nil", "ErrDupRows"} => last.err = "nil"
        /\ last.outcome \notin {"nil", "ErrDupRows"} => last.err = last.outcome

C8_Witness ==
    /\ last.op = "SyncBlobs"
    /\ last.outcome = "ErrDupRows"
    /\ last.err = "nil"

\* C9: a failed backing query is surfaced: BlobExists, ManifestExists and
\* GetBlobsNotInProject return the error, IsNewTag does not answer true and
\* Artifact does not give a record without identity.
C9_FailuresSurface ==
    LET failed == IF last.op \in MemoOps
                  THEN qres[GuardOf(last.op)].err # "nil"
                  ELSE last.outcome # "nil"
    IN (last.op \in MemoOps \cup {"GetBlobsNotInProject"} /\ failed) =>
          CASE last.op = "IsNewTag" -> last.val # TRUE
            [] last.op = "Artifact" -> last.artifact.ID # 0
            [] OTHER -> last.err # "nil"

\* C10: a call on a guarded accessor returns only after the one backing query
\* has completed and its result is in the memo fields, and (the backing query
\* terminating, the stages scheduled fairly) every call returns.
C10_WaitThenReturn ==
    /\ [](\A t \in Stages :
            (th[t].pc = "ret" /\ th[t].op \in MemoOps) =>
                LET g == GuardOf(th[t].op) IN
                /\ once[g].done
                /\ qres[g].set
                /\ fields[ValField(g)] = qres[g].val
                /\ fields[ErrField(g)] = qres[g].err
                /\ \A u \in Stages :
                      ~(th[u].pc \in {"inflight", "unlock"}
                          /\ th[u].op \in MemoOps /\ GuardOf(th[u].op) = g))
    /\ \A t \in Stages : (th[t].pc # "idle") ~> (th[t].pc = "idle")

C10_Witness ==
    \E t, u \in Stages :
        /\ th[t].pc = "inflight"
        /\ th[u].pc = "lock"
        /\ th[u].op = th[t].op
        /\ th[t].op = "ManifestExists"

====
